---- MODULE Spec2Model ----
(***************************************************************************)
(* datawave-cli: the query session (QueryConnection), the result pipeline  *)
(* (parse_results, filter_results) and the two consumers of the page       *)
(* stream (print_query_fields / print_qc, save_query_fields / save_qc) of  *)
(* src/src/datawave_cli/query_interactions.py.                             *)
(*                                                                         *)
(* utilities.Retry and the ingest command of ingest_interactions.py are    *)
(* modelled as well.  The specifications share the state:                  *)
(*   Spec        any sequence of method calls on one QueryConnection       *)
(*               (__enter__, __iter__, __next__, __exit__), each against a *)
(*               transport that answers, or raises, as it likes;           *)
(*   SpecScoped  one run of print_query_fields / save_query_fields: the    *)
(*               `with connection as qc:` block around the page loop.      *)
(***************************************************************************)
EXTENDS Integers, Sequences, FiniteSets, TLC

(* ------------------------------ bounds -------------------------------- *)

\* Spec: how many method calls are made on the session.
MaxCalls == 4

\* SpecScoped: how many pages the service serves before it stops answering 200.
MaxPages == 3

(* ------------------------ the transport's answers --------------------- *)

\* The one status the session treats as success (status_code == 200).
OK == 200

\* A status that is not 200 (the tests use 404 for next and 500 for create).
NotFound == 404

Statuses == {OK, NotFound}

\* Python's None, for the identifier and for the in-flight exception.
None == "None"

\* Session identifiers the create endpoint may hand out in its 'Result'.
QueryIds == {"q1", "q2"}

\* Values a page may report in 'ReturnedEvents'.
ReturnedEventsValues == {0, 2, 3}

\* requests.post / requests.get either raise (connection error, timeout) or
\* return a response with a status code and a body.
CreateResponses ==
    {[raised |-> TRUE, status_code |-> 0, Result |-> None]}
    \cup {[raised |-> FALSE, status_code |-> OK, Result |-> q] : q \in QueryIds}
    \cup {[raised |-> FALSE, status_code |-> s, Result |-> None] : s \in Statuses \ {OK}}

CloseResponses ==
    {[raised |-> TRUE, status_code |-> 0], [raised |-> FALSE, status_code |-> OK]}

\* A raw event is event['Fields']: a list of fields, each a name and its
\* Value.value.
Field(n, v) == [name |-> n, value |-> v]

RawEventLists ==
    { <<>>,
      << <<Field("field1", "a"), Field("field2", "b")>>, <<Field("field2", "c")>> >>,
      << <<Field("field1", "a"), Field("field1", "c")>> >> }

NoPage == [ReturnedEvents |-> 0, Events |-> <<>>]

Pages == [ReturnedEvents : ReturnedEventsValues, Events : RawEventLists]

\* The pages a bare method call is answered with (the session reads only
\* 'ReturnedEvents').
BarePages == [ReturnedEvents : ReturnedEventsValues, Events : {<<>>}]

NextResponses(pages) ==
    {[raised |-> TRUE, status_code |-> 0, page |-> NoPage]}
    \cup {[raised |-> FALSE, status_code |-> OK, page |-> p] : p \in pages}
    \cup {[raised |-> FALSE, status_code |-> s, page |-> NoPage] : s \in Statuses \ {OK}}

(* ------------------------------- state -------------------------------- *)

VARIABLES
    quuid,          \* QueryConnection.quuid: None or the identifier
    open,           \* QueryConnection.open: "unset" (no such attribute), "True", "False"
    results_count,  \* QueryConnection.results_count
    wire,           \* every request handed to the transport, with its answer
    last,           \* the last method call and how it ended
    calls,          \* number of method calls made so far
    pc,             \* SpecScoped: position in print_query_fields / save_query_fields
    data,           \* SpecScoped: the loop variable `data`
    exc,            \* SpecScoped: the exception in flight (None when there is none)
    stdout,         \* SpecScoped: what has been printed
    file,           \* SpecScoped: the output path: <<>> (absent) or <<document>>
    renamed,        \* SpecScoped: the path with stem + '_old', likewise
    events,         \* SpecScoped: save_qc's accumulator `events`
    filter_on,      \* SpecScoped: the filter keys (<<>> stands for None)
    output,         \* SpecScoped: TRUE = args.output given (save), FALSE = print
    retry,          \* SpecRetry: one Retry object and the call it is running
    pure,           \* one call of a pure function, its arguments and result
    base_url,       \* SpecSessions: the module global base_url
    conns,          \* SpecSessions: the QueryConnection objects
    ingest,         \* SpecIngest: one run of the ingest command
    save            \* SpecSave: decode_raw, the pages pulled, the rawdata files

session == <<quuid, open, results_count>>
program == <<pc, data, exc, stdout, file, renamed, events, filter_on, output>>
others == <<base_url, conns, ingest, save>>
aside == <<retry, pure, others>>
vars == <<quuid, open, results_count, wire, last, calls,
          pc, data, exc, stdout, file, renamed, events, filter_on, output,
          retry, pure, base_url, conns, ingest, save>>

Outcome(op, how, status) == [op |-> op, outcome |-> how, status_code |-> status]

\* What the transport saw: the create request and its answer ...
CreateRequest(resp) ==
    [kind |-> "create", quuid |-> None, raised |-> resp.raised,
     status_code |-> resp.status_code, Result |-> resp.Result]

\* ... the close request to DataWave/Query/{id}/close.json ...
CloseRequest(id, resp) ==
    [kind |-> "close", quuid |-> id, raised |-> resp.raised,
     status_code |-> resp.status_code]

\* ... and the next request to DataWave/Query/{id}/next.json.

NextRequest(id, resp) ==
    [kind |-> "next", quuid |-> id, raised |-> resp.raised,
     status_code |-> resp.status_code,
     ReturnedEvents |-> resp.page.ReturnedEvents]

(* ----------------------- QueryConnection methods ---------------------- *)

\* __init__: results_count = 0; quuid is the class attribute None; `open` is
\* not assigned.
QueryConnection_init ==
    /\ quuid = None
    /\ open = "unset"
    /\ results_count = 0
    /\ wire = <<>>
    /\ last = Outcome("init", "return", 0)
    /\ calls = 0

\* Mutant of __enter__: the identifier and open are assigned from the response
\* before its status is looked at.
enter_assigns_before_status(resp) ==
    /\ wire' = Append(wire, CreateRequest(resp))
    /\ IF resp.raised
         THEN /\ last' = Outcome("enter", "TransportError", 0)
              /\ UNCHANGED <<quuid, open>>
         ELSE /\ quuid' = resp.Result
              /\ open' = "True"
              /\ last' = Outcome("enter",
                                 IF resp.status_code = OK THEN "return" ELSE "RuntimeError",
                                 resp.status_code)
    /\ UNCHANGED results_count

\* __enter__: post the create request; 200 stores the identifier and sets
\* open, any other status raises RuntimeError carrying the status code.  An
\* exception of requests.post propagates.
__enter__(resp) ==
    /\ wire' = Append(wire, CreateRequest(resp))
    /\ IF resp.raised
         THEN /\ last' = Outcome("enter", "TransportError", 0)
              /\ UNCHANGED <<quuid, open>>
         ELSE IF resp.status_code = OK
           THEN /\ quuid' = resp.Result
                /\ open' = "True"
                /\ last' = Outcome("enter", "return", resp.status_code)
           ELSE /\ last' = Outcome("enter", "RuntimeError", resp.status_code)
                /\ UNCHANGED <<quuid, open>>
    /\ UNCHANGED results_count

\* __exit__: close_endpoint raises ValueError without an identifier; otherwise
\* the close request is sent, and open is set to False after it returned.  An
\* exception of requests.get propagates before open is assigned.
__exit__(resp) ==
    /\ IF quuid = None
         THEN /\ last' = Outcome("exit", "ValueError", 0)
              /\ UNCHANGED <<wire, open>>
         ELSE /\ wire' = Append(wire, CloseRequest(quuid, resp))
              /\ IF resp.raised
                   THEN /\ last' = Outcome("exit", "TransportError", 0)
                        /\ UNCHANGED open
                   ELSE /\ open' = "False"
                        /\ last' = Outcome("exit", "return", resp.status_code)
    /\ UNCHANGED <<quuid, results_count>>

\* __iter__: reads self.open (AttributeError when it was never assigned) and
\* raises RuntimeError unless it is True.
__iter__ ==
    /\ last' = Outcome("iter",
                       CASE open = "unset" -> "AttributeError"
                         [] open = "False" -> "RuntimeError"
                         [] OTHER          -> "return",
                       0)
    /\ UNCHANGED <<quuid, open, results_count, wire>>

\* Mutant of __next__: next_endpoint formats the identifier without checking
\* that it is set.
next_without_quuid_check(resp) ==
    /\ wire' = Append(wire, NextRequest(quuid, resp))
    /\ IF resp.raised
         THEN /\ last' = Outcome("next", "TransportError", 0)
              /\ UNCHANGED results_count
         ELSE IF resp.status_code = OK
           THEN /\ results_count' = results_count + resp.page.ReturnedEvents
                /\ last' = Outcome("next", "return", resp.status_code)
           ELSE /\ last' = Outcome("next", "StopIteration", resp.status_code)
                /\ UNCHANGED results_count
    /\ UNCHANGED <<quuid, open>>

\* Mutant of __next__: a status other than 200 raises RuntimeError, as
\* __enter__ does.
next_raises_on_status(resp) ==
    /\ IF quuid = None
         THEN /\ last' = Outcome("next", "ValueError", 0)
              /\ UNCHANGED <<wire, results_count>>
         ELSE /\ wire' = Append(wire, NextRequest(quuid, resp))
              /\ IF resp.raised
                   THEN /\ last' = Outcome("next", "TransportError", 0)
                        /\ UNCHANGED results_count
                   ELSE IF resp.status_code = OK
                     THEN /\ results_count' = results_count + resp.page.ReturnedEvents
                          /\ last' = Outcome("next", "return", resp.status_code)
                     ELSE /\ last' = Outcome("next", "RuntimeError", resp.status_code)
                          /\ UNCHANGED results_count
    /\ UNCHANGED <<quuid, open>>

\* Mutant of __next__: results_count = res['ReturnedEvents'] in place of +=.
next_assigns_count(resp) ==
    /\ IF quuid = None
         THEN /\ last' = Outcome("next", "ValueError", 0)
              /\ UNCHANGED <<wire, results_count>>
         ELSE /\ wire' = Append(wire, NextRequest(quuid, resp))
              /\ IF resp.raised
                   THEN /\ last' = Outcome("next", "TransportError", 0)
                        /\ UNCHANGED results_count
                   ELSE IF resp.status_code = OK
                     THEN /\ results_count' = resp.page.ReturnedEvents
                          /\ last' = Outcome("next", "return", resp.status_code)
                     ELSE /\ last' = Outcome("next", "StopIteration", resp.status_code)
                          /\ UNCHANGED results_count
    /\ UNCHANGED <<quuid, open>>

\* Mutant of __next__: the request is wrapped in try/except and an exception
\* of the transport ends the stream like a status other than 200.
next_swallows_transport_error(resp) ==
    /\ IF quuid = None
         THEN /\ last' = Outcome("next", "ValueError", 0)
              /\ UNCHANGED <<wire, results_count>>
         ELSE /\ wire' = Append(wire, NextRequest(quuid, resp))
              /\ IF resp.raised
                   THEN /\ last' = Outcome("next", "StopIteration", 0)
                        /\ UNCHANGED results_count
                   ELSE IF resp.status_code = OK
                     THEN /\ results_count' = results_count + resp.page.ReturnedEvents
                          /\ last' = Outcome("next", "return", resp.status_code)
                     ELSE /\ last' = Outcome("next", "StopIteration", resp.status_code)
                          /\ UNCHANGED results_count
    /\ UNCHANGED <<quuid, open>>

\* __next__: next_endpoint raises ValueError without an identifier; otherwise
\* the next request is sent; 200 adds the page's ReturnedEvents to
\* results_count and returns the page, any other status raises StopIteration.
\* self.open is not read.
__next__(resp) ==
    /\ IF quuid = None
         THEN /\ last' = Outcome("next", "ValueError", 0)
              /\ UNCHANGED <<wire, results_count>>
         ELSE /\ wire' = Append(wire, NextRequest(quuid, resp))
              /\ IF resp.raised
                   THEN /\ last' = Outcome("next", "TransportError", 0)
                        /\ UNCHANGED results_count
                   ELSE IF resp.status_code = OK
                     THEN /\ results_count' = results_count + resp.page.ReturnedEvents
                          /\ last' = Outcome("next", "return", resp.status_code)
                     ELSE /\ last' = Outcome("next", "StopIteration", resp.status_code)
                          /\ UNCHANGED results_count
    /\ UNCHANGED <<quuid, open>>

(* --------------------------- result pipeline --------------------------- *)

\* A parsed event is a dict, kept in insertion order: a sequence of items,
\* each a key with either a scalar (list = FALSE, one value) or a list of
\* values (list = TRUE): values[0] if len(values) == 1 else values.
Item(k, vals) == [name |-> k, list |-> Len(vals) # 1, value |-> vals]

RECURSIVE Dedup(_)
\* The distinct elements of a sequence in order of first occurrence: the key
\* order of a dict built by inserting them one after the other.
Dedup(s) ==
    IF s = <<>> THEN <<>>
    ELSE LET front == Dedup(SubSeq(s, 1, Len(s) - 1))
             x == s[Len(s)]
         IN IF \E i \in 1..Len(front) : front[i] = x THEN front ELSE Append(front, x)

\* Mutant of parse_event: event_data[field_name] = field_value, so that a
\* repeated field keeps its last value only.
parse_event_keeping_last(fields) ==
    LET names == Dedup([i \in 1..Len(fields) |-> fields[i].name])
        Values(k) ==
            LET Has(f) == f.name = k
                fs == SelectSeq(fields, Has)
            IN <<fs[Len(fs)].value>>
    IN [i \in 1..Len(names) |-> Item(names[i], Values(names[i]))]

\* event_data[field_name].append(field_value) over event['Fields'], then the
\* single-item lists replaced by their item.
parse_event(fields) ==
    LET names == Dedup([i \in 1..Len(fields) |-> fields[i].name])
        Values(k) ==
            LET Has(f) == f.name = k
                fs == SelectSeq(fields, Has)
            IN [i \in 1..Len(fs) |-> fs[i].value]
    IN [i \in 1..Len(names) |-> Item(names[i], Values(names[i]))]

parse_results(raw_events) ==
    [i \in 1..Len(raw_events.Events) |-> parse_event(raw_events.Events[i])]

\* event.keys(), as a set.
KeySet(event) == {event[j].name : j \in 1..Len(event)}

\* event.get(key): None where the event lacks the key.
Get_without_default(event, key) ==
    IF key \in KeySet(event)
      THEN event[CHOOSE j \in 1..Len(event) : event[j].name = key]
      ELSE [name |-> key, list |-> FALSE, value |-> <<None>>]

\* event.get(key, "Not Found"), as the item the result dict holds under key.
Get(event, key) ==
    IF key \in KeySet(event)
      THEN event[CHOOSE j \in 1..Len(event) : event[j].name = key]
      ELSE [name |-> key, list |-> FALSE, value |-> <<"Not Found">>]

\* filter_results with the keys found in no event left out of the projection
\* instead of ending the program.
filter_results_dropping_missing(results_in, keys) ==
    IF keys = <<>>
      THEN [exit |-> FALSE, not_found |-> <<>>, results |-> results_in]
      ELSE LET all_keys == UNION {KeySet(results_in[i]) : i \in 1..Len(results_in)}
               Found(k) == k \in all_keys
               ks == Dedup(SelectSeq(keys, Found))
           IN [exit |-> FALSE, not_found |-> <<>>,
               results |-> [i \in 1..Len(results_in) |->
                              [j \in 1..Len(ks) |-> Get(results_in[i], ks[j])]]]

\* filter_results.  `keys` is filter_on.split(','); <<>>, which split never
\* returns, stands for filter_on = None.  exit = TRUE is print(repr(KeyError))
\* followed by sys.exit(1).
filter_results(results_in, keys) ==
    IF keys = <<>>
      THEN [exit |-> FALSE, not_found |-> <<>>, results |-> results_in]
      ELSE LET all_keys == UNION {KeySet(results_in[i]) : i \in 1..Len(results_in)}
               Missing(k) == k \notin all_keys
               not_found == SelectSeq(keys, Missing)
               ks == Dedup(keys)
           IN IF not_found # <<>>
                THEN [exit |-> TRUE, not_found |-> not_found, results |-> <<>>]
                ELSE [exit |-> FALSE, not_found |-> <<>>,
                      results |-> [i \in 1..Len(results_in) |->
                                     [j \in 1..Len(ks) |-> Get(results_in[i], ks[j])]]]

parse_and_filter_results(raw_events, keys) ==
    filter_results(parse_results(raw_events), keys)

(* --------------- Spec: bare method calls on one session ---------------- *)

ProgramIdle ==
    /\ pc = "bare"
    /\ data = NoPage
    /\ exc = None
    /\ stdout = <<>>
    /\ file = <<>>
    /\ renamed = <<>>
    /\ events = <<>>
    /\ filter_on = <<>>
    /\ output = FALSE

\* No Retry call and no filter call is running.
NoRetry ==
    [pc |-> "none", script |-> <<>>, testing |-> FALSE,
     tries_inf |-> TRUE, tries |-> 0, time_limit |-> 0, delay_sec |-> 0,
     attempts |-> 0, invocations |-> 0, sleeps |-> 0,
     start_time |-> 0, clock |-> 0, elapsed |-> 0,
     result |-> None, error |-> [type |-> None, reason |-> None, cause |-> 0]]

NoPure == [called |-> FALSE, results_in |-> <<>>, keys |-> <<>>,
           ret |-> [exit |-> FALSE, not_found |-> <<>>, results |-> <<>>]]

\* base_url as the module sets it at import: datawave.<DWV_URL>.
DnsUrl == "datawave.DWV_URL"

\* No QueryConnection of SpecSessions and no ingest run exists.
OthersIdle ==
    /\ base_url = DnsUrl
    /\ conns = <<>>
    /\ ingest = [pc |-> "none"]
    /\ save = [decode_raw |-> FALSE, pulled |-> <<>>, rawdata |-> {}]

AsideIdle == retry = NoRetry /\ pure = NoPure /\ OthersIdle

Init == QueryConnection_init /\ ProgramIdle /\ AsideIdle

Call == calls < MaxCalls /\ calls' = calls + 1 /\ UNCHANGED <<program, aside>>

CallEnter == Call /\ \E resp \in CreateResponses : __enter__(resp)

CallIter == Call /\ __iter__

CallNext == Call /\ \E resp \in NextResponses(BarePages) : __next__(resp)

CallExit == Call /\ \E resp \in CloseResponses : __exit__(resp)

Next == CallEnter \/ CallIter \/ CallNext \/ CallExit

Spec == Init /\ [][Next]_vars

(* ---- SpecScoped: print_query_fields / save_query_fields, one run ------ *)

\* The values of args.filter, after split(','); <<>> is "no filter".
Filters == {<<>>, <<"field1">>, <<"field3">>, <<"field2", "field1">>}

\* A file left at the output path by an earlier run.
PriorDocument == [prior |-> TRUE, ReturnedEvents |-> 0, events |-> <<>>]

\* What json.dump writes: the metadata's 'Returned Events' and the events.
Document(count, evs) == [prior |-> FALSE, ReturnedEvents |-> count, events |-> evs]

\* The number of pages the service has served (next requests answered 200).
PagesServed ==
    Cardinality({i \in 1..Len(wire) :
                   /\ wire[i].kind = "next"
                   /\ ~wire[i].raised
                   /\ wire[i].status_code = OK})

\* main: args.output selects save_query_fields, else print_query_fields.
InitScoped ==
    /\ QueryConnection_init
    /\ output \in BOOLEAN
    /\ filter_on \in Filters
    /\ file \in (IF output THEN {<<>>, <<PriorDocument>>} ELSE {<<>>})
    /\ renamed = <<>>
    /\ pc = IF output THEN "rename" ELSE "with_enter"
    /\ data = NoPage
    /\ exc = None
    /\ stdout = <<>>
    /\ events = <<>>
    /\ AsideIdle

\* Mutant of save_query_fields_rename: the existing output file is removed
\* to make room instead of being renamed.
save_query_fields_unlink ==
    /\ pc = "rename"
    /\ IF file = <<>>
         THEN /\ pc' = "with_enter"
              /\ UNCHANGED <<file, renamed, exc>>
         ELSE \/ /\ file' = <<>>
                 /\ pc' = "with_enter"
                 /\ UNCHANGED <<renamed, exc>>
              \/ /\ exc' = "PermissionError"
                 /\ pc' = "done"
                 /\ UNCHANGED <<file, renamed>>
    /\ UNCHANGED <<quuid, open, results_count, wire, last, calls, aside,
                   data, stdout, events, filter_on, output>>

\* Mutant of save_query_fields_rename: a PermissionError of the rename is
\* logged and the run goes on to write over the existing file.
save_query_fields_rename_error_ignored ==
    /\ pc = "rename"
    /\ IF file = <<>>
         THEN UNCHANGED <<file, renamed>>
         ELSE \/ renamed' = file /\ file' = <<>>
              \/ UNCHANGED <<file, renamed>>
    /\ pc' = "with_enter"
    /\ UNCHANGED <<quuid, open, results_count, wire, last, calls, aside,
                   data, exc, stdout, events, filter_on, output>>

\* save_query_fields, before the connection is made: an existing output file
\* is renamed to stem + '_old'; a PermissionError of the rename is re-raised.
save_query_fields_rename ==
    /\ pc = "rename"
    /\ IF file = <<>>
         THEN /\ pc' = "with_enter"
              /\ UNCHANGED <<file, renamed, exc>>
         ELSE \/ /\ renamed' = file
                 /\ file' = <<>>
                 /\ pc' = "with_enter"
                 /\ UNCHANGED exc
              \/ /\ exc' = "PermissionError"
                 /\ pc' = "done"
                 /\ UNCHANGED <<file, renamed>>
    /\ UNCHANGED <<quuid, open, results_count, wire, last, calls, aside,
                   data, stdout, events, filter_on, output>>

\* `with connection as qc:` calls __enter__; when it raises, the block is not
\* entered and __exit__ is not called.
with_enter ==
    /\ pc = "with_enter"
    /\ \E resp \in CreateResponses : __enter__(resp)
    /\ IF last'.outcome = "return"
         THEN pc' = "for_iter" /\ UNCHANGED exc
         ELSE pc' = "done" /\ exc' = last'.outcome
    /\ UNCHANGED <<calls, aside, data, stdout, file, renamed, events, filter_on, output>>

\* `for data in qc:` calls iter(qc) once.
for_iter ==
    /\ pc = "for_iter"
    /\ __iter__
    /\ IF last'.outcome = "return"
         THEN pc' = "for_next" /\ UNCHANGED exc
         ELSE pc' = "with_exit" /\ exc' = last'.outcome
    /\ UNCHANGED <<calls, aside, data, stdout, file, renamed, events, filter_on, output>>

\* ... and next(qc) before every round: a page is bound to `data`,
\* StopIteration ends the loop, any other exception leaves the block.
for_next ==
    /\ pc = "for_next"
    /\ \E resp \in NextResponses(Pages) :
         /\ (~resp.raised /\ resp.status_code = OK) => PagesServed < MaxPages
         /\ __next__(resp)
         /\ CASE last'.outcome = "return" ->
                   data' = resp.page /\ pc' = "body" /\ UNCHANGED exc
              [] last'.outcome = "StopIteration" ->
                   pc' = "after_loop" /\ UNCHANGED <<data, exc>>
              [] OTHER ->
                   pc' = "with_exit" /\ exc' = last'.outcome /\ UNCHANGED data
    /\ UNCHANGED <<calls, aside, stdout, file, renamed, events, filter_on, output>>

\* Mutant of print_qc_body: the events of the page are printed as parsed, and
\* the filter is looked at afterwards.
print_qc_body_filtering_after_print ==
    /\ pc = "body"
    /\ ~output
    /\ LET parsed == parse_results(data)
           r == filter_results(parsed, filter_on)
           printed == stdout \o [i \in 1..Len(parsed) |->
                                   [kind |-> "event", count |-> 0, event |-> parsed[i]]]
       IN IF r.exit
            THEN /\ stdout' = Append(printed, [kind |-> "KeyError", count |-> 0,
                                               event |-> <<>>])
                 /\ exc' = "SystemExit"
                 /\ pc' = "with_exit"
            ELSE /\ stdout' = printed
                 /\ pc' = "for_next"
                 /\ UNCHANGED exc
    /\ UNCHANGED <<quuid, open, results_count, wire, last, calls, aside,
                   data, file, renamed, events, filter_on, output>>

\* print_qc, one round of the loop: the page is parsed and filtered and each
\* event printed; a filter key found nowhere in the page prints the KeyError
\* and raises SystemExit.
print_qc_body ==
    /\ pc = "body"
    /\ ~output
    /\ LET r == parse_and_filter_results(data, filter_on)
       IN IF r.exit
            THEN /\ stdout' = Append(stdout, [kind |-> "KeyError", count |-> 0,
                                              event |-> <<>>])
                 /\ exc' = "SystemExit"
                 /\ pc' = "with_exit"
            ELSE /\ stdout' = stdout \o [i \in 1..Len(r.results) |->
                                           [kind |-> "event", count |-> 0,
                                            event |-> r.results[i]]]
                 /\ pc' = "for_next"
                 /\ UNCHANGED exc
    /\ UNCHANGED <<quuid, open, results_count, wire, last, calls, aside,
                   data, file, renamed, events, filter_on, output>>

\* Mutant of print_qc_count: the number printed is the number of events the
\* loop has printed, not the session's results_count.
print_qc_count_of_printed ==
    /\ pc = "after_loop"
    /\ ~output
    /\ LET IsEventLine(line) == line.kind = "event"
       IN stdout' = Append(stdout, [kind |-> "count",
                                    count |-> Len(SelectSeq(stdout, IsEventLine)),
                                    event |-> <<>>])
    /\ pc' = "with_exit"
    /\ UNCHANGED <<quuid, open, results_count, wire, last, calls, aside,
                   data, exc, file, renamed, events, filter_on, output>>

\* print_qc, after the loop: print(f'Query returned: {qc.results_count} events.')
print_qc_count ==
    /\ pc = "after_loop"
    /\ ~output
    /\ stdout' = Append(stdout, [kind |-> "count", count |-> results_count,
                                 event |-> <<>>])
    /\ pc' = "with_exit"
    /\ UNCHANGED <<quuid, open, results_count, wire, last, calls, aside,
                   data, exc, file, renamed, events, filter_on, output>>

\* save_qc, one round of the loop: events.extend(parse_results(data)).
save_qc_body ==
    /\ pc = "body"
    /\ output
    /\ events' = events \o parse_results(data)
    /\ pc' = "for_next"
    /\ UNCHANGED <<quuid, open, results_count, wire, last, calls, aside,
                   data, exc, stdout, file, renamed, filter_on, output>>

\* save_qc, after the loop: the metadata and the events are dumped to the
\* file; open(filename, 'w') may raise OSError.
save_qc_dump ==
    /\ pc = "after_loop"
    /\ output
    /\ \/ /\ file' = <<Document(results_count, events)>>
          /\ UNCHANGED exc
       \/ /\ exc' = "OSError"
          /\ UNCHANGED file
    /\ pc' = "with_exit"
    /\ UNCHANGED <<quuid, open, results_count, wire, last, calls, aside,
                   data, stdout, renamed, events, filter_on, output>>

\* Mutant of with_exit: the close call follows the loop instead of guarding
\* the block, so an exception in flight leaves without it.
with_exit_skipped_on_exception ==
    /\ pc = "with_exit"
    /\ IF exc = None
         THEN /\ \E resp \in CloseResponses : __exit__(resp)
              /\ exc' = IF last'.outcome = "return" THEN exc ELSE last'.outcome
         ELSE UNCHANGED <<quuid, open, results_count, wire, last, exc>>
    /\ pc' = "done"
    /\ UNCHANGED <<calls, aside, data, stdout, file, renamed, events, filter_on, output>>

\* Leaving the block, normally or by an exception, calls __exit__ once.  It
\* returns None, so an exception in flight goes on; an exception raised by
\* __exit__ itself takes its place.
with_exit ==
    /\ pc = "with_exit"
    /\ \E resp \in CloseResponses : __exit__(resp)
    /\ exc' = IF last'.outcome = "return" THEN exc ELSE last'.outcome
    /\ pc' = "done"
    /\ UNCHANGED <<calls, aside, data, stdout, file, renamed, events, filter_on, output>>

NextScoped ==
    \/ save_query_fields_rename
    \/ with_enter
    \/ for_iter
    \/ for_next
    \/ print_qc_body
    \/ print_qc_count
    \/ save_qc_body
    \/ save_qc_dump
    \/ with_exit

SpecScoped == InitScoped /\ [][NextScoped]_vars

(* ------------- SpecRetry: utilities.Retry, one wrapped call ------------ *)

\* How many invocations an operation's behaviour is scripted for.
MaxInvocations == 4

\* time_limit_min * 60.
SecondsPerMinute == 60

\* What the wrapped function does at each invocation: TRUE returns, FALSE
\* raises.
Scripts == [1..MaxInvocations -> BOOLEAN]

\* Values of `tries` besides math.inf.
TriesValues == {0, 1, 2, 3}

\* Values of `time_limit_min`; 0 stands for None as well, which line 48
\* treats alike.
TimeLimitMinutes == {0, 1, 2}

\* Values of `delay_sec`.
DelaySeconds == {0, 5}

\* Seconds one invocation of the wrapped function may take.
Durations == {0, 60}

NoError == [type |-> None, reason |-> None, cause |-> 0]

\* TimeoutError(message, e): `reason` tells the two messages apart, `cause` is
\* the invocation whose exception e is passed along.
TimeoutError(reason, n) == [type |-> "TimeoutError", reason |-> reason, cause |-> n]

\* The exception the wrapped function raised at invocation n.
OperationError(n) == [type |-> "OperationError", reason |-> None, cause |-> n]

\* Retry.__init__: time_limit = time_limit_min * 60 if time_limit_min else
\* None (kept as 0).
Retry_init(script, testing, tries_inf, tries, time_limit_min, delay_sec) ==
    [pc |-> "constructed", script |-> script, testing |-> testing,
     tries_inf |-> tries_inf, tries |-> tries,
     time_limit |-> IF time_limit_min # 0 THEN time_limit_min * SecondsPerMinute ELSE 0,
     delay_sec |-> delay_sec,
     attempts |-> 0, invocations |-> 0, sleeps |-> 0,
     start_time |-> 0, clock |-> 0, elapsed |-> 0,
     result |-> None, error |-> NoError]

InitRetry ==
    /\ QueryConnection_init
    /\ ProgramIdle
    /\ pure = NoPure /\ OthersIdle
    /\ \E script \in Scripts, testing \in BOOLEAN, tries_inf \in BOOLEAN,
          tries \in TriesValues, m \in TimeLimitMinutes, delay_sec \in DelaySeconds :
         /\ tries_inf => tries = 0
         /\ retry = Retry_init(script, testing, tries_inf, tries, m, delay_sec)

\* Mutant of retries_exceeded: attempts > self.tries.
retries_exceeded_strictly(r, attempts) == ~r.tries_inf /\ attempts > r.tries

\* attempts >= self.tries (never with math.inf).
retries_exceeded(r, attempts) == ~r.tries_inf /\ attempts >= r.tries

\* Mutant of time_exceeded: time.time() - start_time > self.time_limit.
time_exceeded_strictly(r, elapsed) == r.time_limit # 0 /\ elapsed > r.time_limit

\* self.time_limit and time.time() - start_time >= self.time_limit.
time_exceeded(r, elapsed) == r.time_limit # 0 /\ elapsed >= r.time_limit

\* Mutant of reraise_in_testing: the flag is not looked at.
reraise_never(r) == FALSE

\* if Retry.testing: raise e.
reraise_in_testing(r) == r.testing

\* __call__ with a function set: attempts = 0, start_time = time.time().
Retry_call ==
    /\ retry.pc = "constructed"
    /\ retry' = [retry EXCEPT !.pc = "try", !.attempts = 0, !.start_time = retry.clock]
    /\ UNCHANGED <<quuid, open, results_count, wire, last, calls, program, pure, others>>

\* Mutant of Retry_attempt: the sleep comes before the tries and the time are
\* looked at.
Retry_attempt_sleeping_first ==
    /\ retry.pc = "try"
    /\ retry.invocations < Len(retry.script)
    /\ \E d \in Durations :
         LET n == retry.invocations + 1
             now == retry.clock + d
             attempts == retry.attempts + 1
             elapsed == now - retry.start_time
             slept == retry.sleeps + (IF retry.delay_sec # 0 THEN 1 ELSE 0)
             invoked == [retry EXCEPT !.invocations = n, !.clock = now]
         IN retry' =
              IF retry.script[n]
                THEN [invoked EXCEPT !.pc = "returned", !.result = "value"]
              ELSE IF reraise_in_testing(retry)
                THEN [invoked EXCEPT !.pc = "raised", !.error = OperationError(n)]
              ELSE IF retries_exceeded(retry, attempts)
                THEN [invoked EXCEPT !.pc = "raised", !.attempts = attempts,
                                     !.sleeps = slept,
                                     !.error = TimeoutError("retries", n)]
              ELSE IF time_exceeded(retry, elapsed)
                THEN [invoked EXCEPT !.pc = "raised", !.attempts = attempts,
                                     !.elapsed = elapsed, !.sleeps = slept,
                                     !.error = TimeoutError("elapsed", n)]
              ELSE [invoked EXCEPT !.attempts = attempts,
                                   !.elapsed = elapsed,
                                   !.clock = now + retry.delay_sec,
                                   !.sleeps = slept]
    /\ UNCHANGED <<quuid, open, results_count, wire, last, calls, program, pure, others>>

\* One round of `while True`: the function is invoked; its value is returned,
\* or its exception is handled: re-raised when testing, else counted, turned
\* into TimeoutError when the tries or the time are used up, else followed by
\* the sleep.
Retry_attempt ==
    /\ retry.pc = "try"
    /\ retry.invocations < Len(retry.script)
    /\ \E d \in Durations :
         LET n == retry.invocations + 1
             now == retry.clock + d
             attempts == retry.attempts + 1
             elapsed == now - retry.start_time
             invoked == [retry EXCEPT !.invocations = n, !.clock = now]
         IN retry' =
              IF retry.script[n]
                THEN [invoked EXCEPT !.pc = "returned", !.result = "value"]
              ELSE IF reraise_in_testing(retry)
                THEN [invoked EXCEPT !.pc = "raised", !.error = OperationError(n)]
              ELSE IF retries_exceeded(retry, attempts)
                THEN [invoked EXCEPT !.pc = "raised", !.attempts = attempts,
                                     !.error = TimeoutError("retries", n)]
              ELSE IF time_exceeded(retry, elapsed)
                THEN [invoked EXCEPT !.pc = "raised", !.attempts = attempts,
                                     !.elapsed = elapsed,
                                     !.error = TimeoutError("elapsed", n)]
              ELSE [invoked EXCEPT !.attempts = attempts,
                                   !.elapsed = elapsed,
                                   !.clock = now + retry.delay_sec,
                                   !.sleeps = retry.sleeps
                                              + (IF retry.delay_sec # 0 THEN 1 ELSE 0)]
    /\ UNCHANGED <<quuid, open, results_count, wire, last, calls, program, pure, others>>

NextRetry == Retry_call \/ Retry_attempt

SpecRetry == InitRetry /\ [][NextRetry]_vars

(* ------------- SpecFilter: one call of filter_results ------------------ *)

MaxRecords == 2

\* The parsed events a list handed to filter_results is made of: what
\* parse_event returns for events with one field, two fields, a repeated
\* field and no field.
Records ==
    {parse_event(fs) : fs \in {<<>>,
                               <<Field("field1", "a")>>,
                               <<Field("field2", "b")>>,
                               <<Field("field1", "a"), Field("field2", "b")>>,
                               <<Field("field1", "a"), Field("field1", "c")>>}}

RecordLists == UNION {[1..n -> Records] : n \in 0..MaxRecords}

\* filter_on.split(','), and <<>> for filter_on = None.
KeyLists ==
    {<<>>, <<"field1">>, <<"field2">>, <<"field3">>,
     <<"field1", "field2">>, <<"field2", "field1">>, <<"field1", "field1">>,
     <<"field3", "field1">>, <<"field3", "field4">>}

InitFilter ==
    /\ QueryConnection_init /\ ProgramIdle /\ retry = NoRetry /\ OthersIdle
    /\ \E results_in \in RecordLists, keys \in KeyLists :
          pure = [NoPure EXCEPT !.results_in = results_in, !.keys = keys]

filter_results_call ==
    /\ ~pure.called
    /\ pure' = [pure EXCEPT !.called = TRUE,
                            !.ret = filter_results(pure.results_in, pure.keys)]
    /\ UNCHANGED <<quuid, open, results_count, wire, last, calls, program, retry, others>>

NextFilter == filter_results_call

SpecFilter == InitFilter /\ [][NextFilter]_vars

(* ------ SpecSessions: two QueryConnection objects in one process ------- *)

\* How many constructor and method calls are made in all.
MaxSessionCalls == 4

Sessions == {1, 2}

\* The certificate handles: a path, or a (cert, key) pair.
Certs == {"cert.pem", <<"cert.pem", "key.pem">>}

\* What from_ip makes of a pod's ip and the port: f'{ip}:{port}'.
IpPorts == {"10.0.0.1:8443", "10.0.0.2:8443"}

\* The object __init__ leaves: cert, results_count = 0, quuid read from the
\* class attribute, no attribute `open`.
NewConnection(cert) ==
    [cert |-> cert, quuid |-> None, open |-> "unset", results_count |-> 0]

\* A request as the transport sees it: its url f'https://{base_url}/{endpoint}',
\* the keyword arguments given to requests.post / requests.get, and the cert
\* among them.
Request(s, kind, id, kwargs) ==
    [session |-> s, kind |-> kind, address |-> base_url, quuid |-> id,
     cert |-> conns[s].cert, kwargs |-> kwargs]

\* Which object the last call was made on, and what it was.
SessionOutcome(s, op, how) == [session |-> s, op |-> op, outcome |-> how]

\* No object exists yet; base_url is as the import left it.
InitSessions == QueryConnection_init /\ ProgramIdle /\ AsideIdle

SessionCall ==
    /\ calls < MaxSessionCalls
    /\ calls' = calls + 1
    /\ UNCHANGED <<quuid, open, results_count, program, retry, pure, ingest, save>>

\* QueryConnection(cert, query_params, log).
QueryConnection_new(s, cert) ==
    /\ s \notin DOMAIN conns
    /\ conns' = [t \in DOMAIN conns \cup {s} |->
                   IF t = s THEN NewConnection(cert) ELSE conns[t]]
    /\ last' = SessionOutcome(s, "init", "return")
    /\ UNCHANGED <<base_url, wire>>

\* QueryConnection.from_ip(ip, port, cert, query_params, log): the global
\* base_url is assigned, then the constructor is called.
from_ip(s, ip_port, cert) ==
    /\ s \notin DOMAIN conns
    /\ base_url' = ip_port
    /\ conns' = [t \in DOMAIN conns \cup {s} |->
                   IF t = s THEN NewConnection(cert) ELSE conns[t]]
    /\ last' = SessionOutcome(s, "from_ip", "return")
    /\ UNCHANGED wire

\* __enter__ on object s.
conn_enter(s, resp) ==
    /\ s \in DOMAIN conns
    /\ wire' = Append(wire, Request(s, "create", None, {"data", "cert", "verify"}))
    /\ IF resp.raised
         THEN /\ last' = SessionOutcome(s, "enter", "TransportError")
              /\ UNCHANGED conns
         ELSE IF resp.status_code = OK
           THEN /\ conns' = [conns EXCEPT ![s].quuid = resp.Result, ![s].open = "True"]
                /\ last' = SessionOutcome(s, "enter", "return")
           ELSE /\ last' = SessionOutcome(s, "enter", "RuntimeError")
                /\ UNCHANGED conns
    /\ UNCHANGED base_url

\* __next__ on object s.
conn_next(s, resp) ==
    /\ s \in DOMAIN conns
    /\ IF conns[s].quuid = None
         THEN /\ last' = SessionOutcome(s, "next", "ValueError")
              /\ UNCHANGED <<wire, conns>>
         ELSE /\ wire' = Append(wire, Request(s, "next", conns[s].quuid, {"cert", "verify"}))
              /\ IF resp.raised
                   THEN /\ last' = SessionOutcome(s, "next", "TransportError")
                        /\ UNCHANGED conns
                   ELSE IF resp.status_code = OK
                     THEN /\ conns' = [conns EXCEPT ![s].results_count =
                                           @ + resp.page.ReturnedEvents]
                          /\ last' = SessionOutcome(s, "next", "return")
                     ELSE /\ last' = SessionOutcome(s, "next", "StopIteration")
                          /\ UNCHANGED conns
    /\ UNCHANGED base_url

\* __exit__ on object s.
conn_exit(s, resp) ==
    /\ s \in DOMAIN conns
    /\ IF conns[s].quuid = None
         THEN /\ last' = SessionOutcome(s, "exit", "ValueError")
              /\ UNCHANGED <<wire, conns>>
         ELSE /\ wire' = Append(wire, Request(s, "close", conns[s].quuid, {"cert", "verify"}))
              /\ IF resp.raised
                   THEN /\ last' = SessionOutcome(s, "exit", "TransportError")
                        /\ UNCHANGED conns
                   ELSE /\ conns' = [conns EXCEPT ![s].open = "False"]
                        /\ last' = SessionOutcome(s, "exit", "return")
    /\ UNCHANGED base_url

SessionNew == SessionCall /\ \E s \in Sessions, cert \in Certs : QueryConnection_new(s, cert)

SessionFromIp ==
    SessionCall /\ \E s \in Sessions, a \in IpPorts, cert \in Certs : from_ip(s, a, cert)

SessionEnter == SessionCall /\ \E s \in Sessions, resp \in CreateResponses : conn_enter(s, resp)

SessionNext ==
    SessionCall /\ \E s \in Sessions, resp \in NextResponses(BarePages) : conn_next(s, resp)

SessionExit == SessionCall /\ \E s \in Sessions, resp \in CloseResponses : conn_exit(s, resp)

NextSessions == SessionNew \/ SessionFromIp \/ SessionEnter \/ SessionNext \/ SessionExit

SpecSessions == InitSessions /\ [][NextSessions]_vars

(* ---------- SpecSave: save_qc on an open session, with decode_raw ------ *)

\* How many pages the service serves to save_qc.
MaxSavePages == 2

\* Base64 texts and the bytes base64.b64decode makes of them.
Encoded == {"ZmFrZQ==", "cGFycQ=="}

b64decode(value) == IF value = "ZmFrZQ==" THEN "fake" ELSE "parq"

\* 'RAWDATA' in key.
IsRawData(key) == key \in {"RAWDATA_field", "RAWDATA_x"}

\* key.split('_', 1)[1]
parq_name(key) == IF key = "RAWDATA_field" THEN "field" ELSE "x"

\* orig_file.split('.json', 1)[0]
parq_dir(orig_file) ==
    CASE orig_file = "source.json" -> "source"
      [] orig_file = "other.json" -> "other"
      [] OTHER -> orig_file

\* Events with and without raw data: with ORIG_FILE once, twice and missing,
\* and a raw field that occurs twice.
SaveEventLists ==
    { <<>>,
      << <<Field("ORIG_FILE", "source.json"), Field("RAWDATA_field", "ZmFrZQ=="),
           Field("field1", "a")>> >>,
      << <<Field("field1", "a")>>,
         <<Field("ORIG_FILE", "other.json"), Field("ORIG_FILE", "source.json"),
           Field("RAWDATA_x", "cGFycQ==")>> >>,
      << <<Field("RAWDATA_field", "ZmFrZQ==")>> >>,
      << <<Field("ORIG_FILE", "source.json"), Field("RAWDATA_x", "ZmFrZQ=="),
           Field("RAWDATA_x", "cGFycQ==")>> >> }

SavePages == {[ReturnedEvents |-> Len(evs), Events |-> evs] : evs \in SaveEventLists}

\* save_qc is entered with the session open.
InitSave ==
    /\ quuid \in QueryIds /\ open = "True" /\ results_count = 0
    /\ wire = <<>> /\ last = Outcome("enter", "return", OK) /\ calls = 0
    /\ pc = "for_next" /\ data = NoPage /\ exc = None /\ stdout = <<>>
    /\ file = <<>> /\ renamed = <<>> /\ events = <<>> /\ filter_on = <<>>
    /\ output = TRUE
    /\ retry = NoRetry /\ pure = NoPure
    /\ base_url = DnsUrl /\ conns = <<>> /\ ingest = [pc |-> "none"]
    /\ \E d \in BOOLEAN : save = [decode_raw |-> d, pulled |-> <<>>, rawdata |-> {}]

\* What save_qc leaves alone.
save_frame == <<calls, stdout, renamed, filter_on, output, retry, pure, base_url, conns, ingest>>

\* `for data in qc:` one pull.
save_for_next ==
    /\ pc = "for_next"
    /\ \E resp \in NextResponses(SavePages) :
         /\ (~resp.raised /\ resp.status_code = OK) => Len(save.pulled) < MaxSavePages
         /\ __next__(resp)
         /\ CASE last'.outcome = "return" ->
                   /\ data' = resp.page /\ pc' = "body" /\ UNCHANGED exc
                   /\ save' = [save EXCEPT !.pulled = Append(@, resp.page)]
              [] last'.outcome = "StopIteration" ->
                   pc' = "after_loop" /\ UNCHANGED <<data, exc, save>>
              [] OTHER ->
                   pc' = "done" /\ exc' = last'.outcome /\ UNCHANGED <<data, save>>
    /\ UNCHANGED <<file, events, save_frame>>

\* events.extend(parse_results(data))
save_extend ==
    /\ pc = "body"
    /\ events' = events \o parse_results(data)
    /\ pc' = "for_next"
    /\ UNCHANGED <<quuid, open, results_count, wire, last, data, exc, file, save, save_frame>>

\* Mutant of save_dump: with decode_raw the raw fields are written decoded,
\* as print_qc shows them.
save_dump_decoded ==
    /\ pc = "after_loop"
    /\ LET Shown(item) ==
               IF save.decode_raw /\ IsRawData(item.name) /\ ~item.list
                 THEN [item EXCEPT !.value = <<b64decode(item.value[1])>>]
                 ELSE item
           shown == [i \in 1..Len(events) |->
                       [j \in 1..Len(events[i]) |-> Shown(events[i][j])]]
       IN \/ /\ file' = <<Document(results_count, shown)>>
             /\ pc' = IF save.decode_raw THEN "decode" ELSE "done"
             /\ UNCHANGED exc
          \/ /\ exc' = "OSError"
             /\ pc' = "done"
             /\ UNCHANGED file
    /\ UNCHANGED <<quuid, open, results_count, wire, last, data, events, save, save_frame>>

\* The metadata and the events are dumped to the file (open may raise
\* OSError); the decoding follows the dump when decode_raw is set.
save_dump ==
    /\ pc = "after_loop"
    /\ \/ /\ file' = <<Document(results_count, events)>>
          /\ pc' = IF save.decode_raw THEN "decode" ELSE "done"
          /\ UNCHANGED exc
       \/ /\ exc' = "OSError"
          /\ pc' = "done"
          /\ UNCHANGED file
    /\ UNCHANGED <<quuid, open, results_count, wire, last, data, events, save, save_frame>>

\* One round of the decoding for a raw item of an event: b64decode of a list
\* raises TypeError, event['ORIG_FILE'] of an event without it raises
\* KeyError, else the bytes go to rawdata/<parq_dir>/<parq_name>.parquet.
decode_item(event, item) ==
    IF item.list
      THEN [error |-> "TypeError", path |-> <<>>, bytes |-> None]
      ELSE IF "ORIG_FILE" \notin KeySet(event)
        THEN [error |-> "KeyError", path |-> <<>>, bytes |-> None]
        ELSE LET orig_file == Get(event, "ORIG_FILE").value[1]
             IN [error |-> None,
                 path |-> <<"rawdata", parq_dir(orig_file), parq_name(item.name)>>,
                 bytes |-> b64decode(item.value[1])]

\* The rounds of one event, in the order of its keys.
decode_event(event) ==
    LET Raw(item) == IsRawData(item.name)
        raw == SelectSeq(event, Raw)
    IN [j \in 1..Len(raw) |-> decode_item(event, raw[j])]

RECURSIVE decode_events(_)
\* ... and of all events, in order.
decode_events(evs) ==
    IF evs = <<>> THEN <<>>
    ELSE decode_events(SubSeq(evs, 1, Len(evs) - 1)) \o decode_event(evs[Len(evs)])

RECURSIVE written(_, _)
\* The parquet files after the first n rounds: open(pq_file, 'wb') replaces
\* what an earlier round wrote to the same path.
written(rounds, n) ==
    IF n = 0 THEN {}
    ELSE {f \in written(rounds, n - 1) : f.path # rounds[n].path}
         \cup {[path |-> rounds[n].path, bytes |-> rounds[n].bytes]}

\* `if decode_raw:` the loop over the events after the dump; the first
\* exception ends it.
save_decode ==
    /\ pc = "decode"
    /\ LET rounds == decode_events(events)
           failed == {n \in 1..Len(rounds) : rounds[n].error # None}
           first == IF failed = {} THEN Len(rounds) + 1
                    ELSE CHOOSE n \in failed : \A m \in failed : n <= m
       IN /\ save' = [save EXCEPT !.rawdata = written(rounds, first - 1)]
          /\ exc' = IF failed = {} THEN exc ELSE rounds[first].error
    /\ pc' = "done"
    /\ UNCHANGED <<quuid, open, results_count, wire, last, data, file, events, save_frame>>

NextSave == save_for_next \/ save_extend \/ save_dump \/ save_decode

SpecSave == InitSave /\ [][NextSave]_vars

(* --------------- SpecParse: one call of parse_results ------------------ *)

\* How many events a raw page holds, and how many fields in all.
MaxParseEvents == 2

MaxParseFields == 4

ParseFields == {Field(n, v) : n \in {"field1", "field2"}, v \in {"a", "b"}}

\* event['Fields'] lists of at most n fields.
FieldLists(n) == UNION {[1..m -> ParseFields] : m \in 0..n}

RECURSIVE EventLists(_, _)
\* raw_events['Events'] lists of at most e events with at most n fields in all.
EventLists(e, n) ==
    IF e = 0 THEN {<<>>}
    ELSE {<<>>} \cup
         UNION {{<<fields>> \o rest : rest \in EventLists(e - 1, n - Len(fields))} :
                  fields \in FieldLists(n)}

InitParse ==
    /\ QueryConnection_init /\ ProgramIdle /\ retry = NoRetry /\ OthersIdle
    /\ \E evs \in EventLists(MaxParseEvents, MaxParseFields) :
          pure = [called |-> FALSE, raw_events |-> [Events |-> evs], ret |-> <<>>]

parse_results_call ==
    /\ ~pure.called
    /\ pure' = [pure EXCEPT !.called = TRUE, !.ret = parse_results(pure.raw_events)]
    /\ UNCHANGED <<quuid, open, results_count, wire, last, calls, program, retry, others>>

NextParse == parse_results_call

SpecParse == InitParse /\ [][NextParse]_vars

(* --------------- SpecParams: one call of QueryParams.get --------------- *)

\* A keyword argument that is not given; <<v>> is one given as v.
Omitted == <<>>

\* page_size: int = 5
DefaultPageSize == 5

\* The dataclass defaults of the four optional fields.
Defaults ==
    [column_visibility |-> "N/A", page_size |-> DefaultPageSize,
     begin |-> "19700101", end |-> "20990101"]

\* The arguments QueryParams is constructed with.
ParamArgs ==
    [query_name : {"test-query", "q"}, query : {"F == 'x'", "G == 'y'"},
     auths : {"A", "A,B"},
     column_visibility : {Omitted, <<"A&B">>}, page_size : {Omitted, <<5>>, <<100>>},
     begin : {Omitted, <<"20200101">>}, end : {Omitted, <<"20201231">>}]

\* The generated __init__: each field is the argument, or its default when
\* the argument is not given.
QueryParams_init(args) ==
    LET Or(given, default) == IF given = Omitted THEN default ELSE given[1]
    IN [query_name |-> args.query_name, query |-> args.query, auths |-> args.auths,
        column_visibility |-> Or(args.column_visibility, Defaults.column_visibility),
        page_size |-> Or(args.page_size, Defaults.page_size),
        begin |-> Or(args.begin, Defaults.begin),
        end |-> Or(args.end, Defaults.end)]

\* Mutant of get: a column visibility of 'N/A' is left out of the dict.
get_without_default_visibility(self) ==
    LET keys == {"queryName", "pagesize", "begin", "end", "query", "auths"}
                \cup (IF self.column_visibility = "N/A" THEN {} ELSE {"columnVisibility"})
    IN [k \in keys |->
          CASE k = "queryName" -> self.query_name
            [] k = "columnVisibility" -> self.column_visibility
            [] k = "pagesize" -> self.page_size
            [] k = "begin" -> self.begin
            [] k = "end" -> self.end
            [] k = "query" -> self.query
            [] k = "auths" -> self.auths]

\* QueryParams.get: the dict of the request's form data.
get(self) ==
    [k \in {"queryName", "columnVisibility", "pagesize", "begin", "end", "query", "auths"} |->
       CASE k = "queryName" -> self.query_name
         [] k = "columnVisibility" -> self.column_visibility
         [] k = "pagesize" -> self.page_size
         [] k = "begin" -> self.begin
         [] k = "end" -> self.end
         [] k = "query" -> self.query
         [] k = "auths" -> self.auths]

InitParams ==
    /\ QueryConnection_init /\ ProgramIdle /\ retry = NoRetry /\ OthersIdle
    /\ \E args \in ParamArgs :
          pure = [called |-> FALSE, args |-> args, self |-> QueryParams_init(args),
                  ret |-> <<>>]

get_call ==
    /\ ~pure.called
    /\ pure' = [pure EXCEPT !.called = TRUE, !.ret = get(pure.self)]
    /\ UNCHANGED <<quuid, open, results_count, wire, last, calls, program, retry, others>>

NextParams == get_call

SpecParams == InitParams /\ [][NextParams]_vars

(* ----- SpecCheck: check_app_statuses under its Retry decorator -------- *)

\* How many times Yarn is asked for its applications.
MaxPolls == 5

\* delay_sec=5, the default the decorator of check_app_statuses leaves.
DefaultDelaySec == 5

\* What `yarn application -list -appStates ALL` may list: the State column.
Listings ==
    {<<"FINISHED">>, <<"FINISHED", "FINISHED">>, <<"FINISHED", "RUNNING">>,
     <<"FINISHED", "FAILED">>, <<"FINISHED", "KILLED">>}

\* Mutant of check_app_statuses: only FAILED and KILLED applications count as
\* failures.
check_app_statuses_running_passes(statuses, baseline_num_apps) ==
    IF Len(statuses) = baseline_num_apps
      THEN "RuntimeError"
      ELSE IF \E i \in 1..Len(statuses) : statuses[i] \in {"FAILED", "KILLED"}
        THEN "RuntimeError"
        ELSE "return"

\* The function check_app_statuses as written, without its decorator: how it
\* ends for the statuses get_accumulo_appstates returns.
check_app_statuses(statuses, baseline_num_apps) ==
    IF Len(statuses) = baseline_num_apps
      THEN "RuntimeError"
      ELSE IF \E i \in 1..Len(statuses) : statuses[i] # "FINISHED"
        THEN "RuntimeError"
        ELSE "return"

\* @Retry(time_limit_min=.3): tries = math.inf, time_limit = .3 * 60,
\* delay_sec = 5; the wrapped function returns at a poll iff
\* check_app_statuses does for the listing of that poll.
Retry_check_app_statuses(listings, baseline_num_apps, testing) ==
    [Retry_init([n \in 1..Len(listings) |->
                   check_app_statuses(listings[n], baseline_num_apps) = "return"],
                testing, TRUE, 0, 0, DefaultDelaySec)
       EXCEPT !.time_limit = (3 * SecondsPerMinute) \div 10]

InitCheck ==
    /\ QueryConnection_init /\ ProgramIdle /\ pure = NoPure
    /\ base_url = DnsUrl /\ conns = <<>>
    /\ save = [decode_raw |-> FALSE, pulled |-> <<>>, rawdata |-> {}]
    /\ \E listings \in [1..MaxPolls -> Listings], baseline \in {1, 2}, testing \in BOOLEAN :
         /\ ingest = [pc |-> "check", baseline_num_apps |-> baseline, listings |-> listings]
         /\ retry = Retry_check_app_statuses(listings, baseline, testing)

\* The call check_app_statuses(num_of_apps_pre, namespace) enters
\* Retry.__call__ ...
check_call == ingest.pc = "check" /\ Retry_call

\* ... and each round of it polls Yarn once.
check_poll == ingest.pc = "check" /\ Retry_attempt

NextCheck == check_call \/ check_poll

SpecCheck == InitCheck /\ [][NextCheck]_vars

(* ------------- SpecIngest: one run of the ingest command --------------- *)

\* Path(src_file).name of the file given with -f.
FileName == "data.json"

\* What may lie in tmp of the HDFS pod before the run; the name of the second
\* file contains the name of the first.
PodFiles == {"data.json", "olddata.json"}

\* filename in resp, for the output of `ls tmp` on a pod holding `files`: a
\* substring test.
check_for_file(filename, files) ==
    \E f \in files : f = filename \/ (f = "olddata.json" /\ filename = "data.json")

\* The listings Yarn gives to a run: the applications there before the
\* ingest, and with the job of the ingest finished.
IngestListings == {<<"FINISHED">>, <<"FINISHED", "FINISHED">>}

InitIngest ==
    /\ QueryConnection_init /\ ProgramIdle /\ pure = NoPure
    /\ base_url = DnsUrl /\ conns = <<>>
    /\ save = [decode_raw |-> FALSE, pulled |-> <<>>, rawdata |-> {}]
    /\ \E listings \in [1..MaxPolls -> IngestListings], testing \in BOOLEAN,
          args_file \in BOOLEAN, kubectl \in BOOLEAN, cp_works \in BOOLEAN,
          tmp \in {{}, {"data.json"}, {"olddata.json"}} :
         /\ ingest = [pc |-> "main", args_file |-> args_file, kubectl |-> kubectl,
                      cp_works |-> cp_works, tmp_before |-> tmp, tmp |-> tmp,
                      commands |-> <<>>, exit_code |-> None,
                      baseline_num_apps |-> 1, listings |-> listings]
         /\ retry = Retry_check_app_statuses(listings, 1, testing)

ingest_frame ==
    <<quuid, open, results_count, wire, last, calls, program, pure, base_url, conns, save>>

\* main up to copy_file_to_pod: check_for_required_cmds exits with 1 without
\* kubectl; with a file the applications are counted, without one they are
\* listed and main returns.
ingest_main ==
    /\ ingest.pc = "main"
    /\ ingest' =
         IF ~ingest.kubectl
           THEN [ingest EXCEPT !.pc = "done", !.exit_code = 1]
           ELSE IF ingest.args_file
             THEN [ingest EXCEPT !.pc = "copy", !.commands = Append(@, "yarn application -list")]
             ELSE [ingest EXCEPT !.pc = "done", !.exit_code = 0,
                                 !.commands = Append(@, "yarn application -list")]
    /\ UNCHANGED <<retry, ingest_frame>>

\* Mutant of copy_file_to_pod: the file is not looked for again after the
\* kubectl cp.
copy_file_to_pod_unchecked ==
    /\ ingest.pc = "copy"
    /\ ingest' =
         IF check_for_file(FileName, ingest.tmp)
           THEN [ingest EXCEPT !.pc = "done", !.exit_code = 0,
                               !.commands = Append(@, "ls tmp")]
           ELSE LET copied == IF ingest.cp_works THEN ingest.tmp \cup {FileName}
                              ELSE ingest.tmp
                IN [ingest EXCEPT !.pc = "check", !.tmp = copied,
                                  !.commands = @ \o <<"ls tmp", "kubectl cp", "hdfs dfs -put">>]
    /\ UNCHANGED <<retry, ingest_frame>>

\* copy_file_to_pod: a file found in tmp of the pod ends the run with
\* sys.exit(0); otherwise kubectl cp is run and the file looked for again:
\* not found ends the run with sys.exit(1), found is followed by the
\* hdfs dfs -put.
copy_file_to_pod ==
    /\ ingest.pc = "copy"
    /\ ingest' =
         IF check_for_file(FileName, ingest.tmp)
           THEN [ingest EXCEPT !.pc = "done", !.exit_code = 0,
                               !.commands = Append(@, "ls tmp")]
           ELSE LET copied == IF ingest.cp_works THEN ingest.tmp \cup {FileName}
                              ELSE ingest.tmp
                IN IF ~check_for_file(FileName, copied)
                     THEN [ingest EXCEPT !.pc = "done", !.exit_code = 1, !.tmp = copied,
                                         !.commands = @ \o <<"ls tmp", "kubectl cp", "ls tmp">>]
                     ELSE [ingest EXCEPT !.pc = "check", !.tmp = copied,
                                         !.commands = @ \o <<"ls tmp", "kubectl cp", "ls tmp",
                                                             "hdfs dfs -put">>]
    /\ UNCHANGED <<retry, ingest_frame>>

\* main after check_app_statuses: it returns, or its exception ends the run.
ingest_end ==
    /\ ingest.pc = "check"
    /\ retry.pc \in {"returned", "raised"}
    /\ ingest' = [ingest EXCEPT !.pc = "done",
                                !.exit_code = IF retry.pc = "returned" THEN 0 ELSE 1]
    /\ UNCHANGED <<retry, ingest_frame>>

NextIngest == ingest_main \/ copy_file_to_pod \/ check_call \/ check_poll \/ ingest_end

SpecIngest == InitIngest /\ [][NextIngest]_vars

(* ============================== claims ================================ *)

\* The answer the transport gave to the last request.
LastWire == wire[Len(wire)]

IsClose(r) == r.kind = "close"

IsNext(r) == r.kind = "next"

\* A create request answered 200: open() succeeded.
CreateSucceeded(r) == r.kind = "create" /\ ~r.raised /\ r.status_code = OK

\* A request answered with a status other than 200.
Refused(r) == ~r.raised /\ r.status_code # OK

Opened == \E i \in 1..Len(wire) : CreateSucceeded(wire[i])

CloseRequests == {i \in 1..Len(wire) : IsClose(wire[i])}

NextRequests == SelectSeq(wire, IsNext)

Errors == {"ValueError", "AttributeError", "RuntimeError", "TransportError"}

RECURSIVE SumReturnedEvents(_)
\* The sum of ReturnedEvents over the next requests answered 200.
SumReturnedEvents(w) ==
    IF w = <<>> THEN 0
    ELSE SumReturnedEvents(SubSeq(w, 1, Len(w) - 1))
         + (IF IsNext(w[Len(w)]) /\ ~w[Len(w)].raised /\ w[Len(w)].status_code = OK
              THEN w[Len(w)].ReturnedEvents ELSE 0)

\* C1 (SpecScoped): a run of the with-block whose open() succeeded issues
\* exactly one close request, addressed to the identifier the create response
\* gave, on every way out of the block (pages exhausted, a page pull raised,
\* the consumer raised or exited); none is issued while the block is running
\* or when open() failed, and every position before the end has a next step.
C1_ExactlyOneCloseOnEveryExit ==
    /\ pc # "done" => (CloseRequests = {} /\ ENABLED NextScoped)
    /\ (pc = "done" /\ ~Opened) => CloseRequests = {}
    /\ (pc = "done" /\ Opened) =>
          /\ Cardinality(CloseRequests) = 1
          /\ \A i \in CloseRequests :
               \E j \in 1..(i - 1) :
                 CreateSucceeded(wire[j]) /\ wire[i].quuid = wire[j].Result

\* C1 witness: the consumer's filter exited the process inside the block and
\* the block was left with one close request sent.
C1_Witness ==
    pc = "done" /\ exc = "SystemExit" /\ Opened /\ Cardinality(CloseRequests) = 1

\* C2 (SpecScoped), as claimed: leaving the block always ends with open = False
\* and with the exception that was in flight (or none) unchanged, also when the
\* close request itself raises.
C2_CloseFailureNeverEscalates ==
    [][(pc = "with_exit" /\ pc' = "done") => (open' = "False" /\ exc' = exc)]_vars

\* C3 (Spec), as claimed: a close call whose request the transport did not
\* fail returns normally and leaves the session not open in every session
\* state, and sends nothing when no identifier is stored.
C3_CloseSafeInEveryState ==
    (last.op = "exit" /\ last.outcome # "TransportError") =>
        (last.outcome = "return" /\ open = "False")

\* C4 (Spec), as claimed: on a closed session (open = False) neither iter
\* nor next returns, no request is sent and results_count keeps its value.
C4_NoPullAfterClose ==
    [][(open = "False" /\ calls' # calls /\ last'.op \in {"iter", "next"}) =>
          /\ last'.outcome \in Errors
          /\ wire' = wire
          /\ results_count' = results_count]_vars

\* C5 (Spec): as long as no create request was answered 200, every iter and
\* next call raises, no next request has been sent and results_count is 0.
C5_PullBeforeOpenFails ==
    ~Opened =>
        /\ results_count = 0
        /\ NextRequests = <<>>
        /\ last.op \in {"iter", "next"} => last.outcome \in Errors

\* C5 witness: next called after a create request that was refused.
C5_Witness ==
    /\ ~Opened
    /\ last.op = "next"
    /\ \E i \in 1..Len(wire) : wire[i].kind = "create" /\ Refused(wire[i])

\* C6 (Spec): an __enter__ whose create request is answered with a status
\* other than 200 raises RuntimeError carrying that status, and a session
\* that was never opened still has no identifier and is not marked open.
C6_CreateRefusedStaysUnopened ==
    (last.op = "enter" /\ Refused(LastWire)) =>
        /\ last.outcome = "RuntimeError"
        /\ last.status_code = LastWire.status_code
        /\ ~Opened => (quuid = None /\ open = "unset")

\* C6 witness: the first open() of a session was refused.
C6_Witness == last.op = "enter" /\ Refused(LastWire) /\ ~Opened

\* C7 (Spec), as claimed: the identifier changes only from None, only in a
\* successful __enter__ and to the Result of its response, and every next
\* and close request carries the identifier stored at that time.
C7_IdentifierAssignedOnce ==
    [][/\ quuid # None => quuid' = quuid
       /\ quuid' # quuid =>
            (last'.op = "enter" /\ CreateSucceeded(wire'[Len(wire')])
             /\ quuid' = wire'[Len(wire')].Result)
       /\ (wire' # wire /\ wire'[Len(wire')].kind \in {"next", "close"}) =>
            (quuid # None /\ wire'[Len(wire')].quuid = quuid)]_vars

\* C8 (SpecScoped): a next request answered with a status other than 200 ends
\* the consumer's loop: control passes to the statement after the loop, no
\* exception is in flight, no page is bound and results_count is unchanged.
C8_RefusedNextEndsIteration ==
    [][(pc = "for_next" /\ wire' # wire /\ Refused(wire'[Len(wire')])) =>
          /\ pc' = "after_loop"
          /\ exc' = None
          /\ last'.outcome = "StopIteration"
          /\ data' = data
          /\ results_count' = results_count]_vars

\* C8 witness: two pages were pulled and the third request was refused.
C8_Witness ==
    /\ pc = "after_loop"
    /\ Len(NextRequests) = 3
    /\ Refused(LastWire)

\* C9 (Spec): results_count is always the sum of the ReturnedEvents of the
\* pages pulled so far, it never decreases, and after pages reporting 3 and 2
\* and a refused third request it is 5.
C9_ResultsCountIsSum ==
    /\ [](/\ results_count = SumReturnedEvents(wire)
          /\ (/\ Len(NextRequests) = 3
              /\ ~NextRequests[1].raised /\ NextRequests[1].status_code = OK
              /\ NextRequests[1].ReturnedEvents = 3
              /\ ~NextRequests[2].raised /\ NextRequests[2].status_code = OK
              /\ NextRequests[2].ReturnedEvents = 2
              /\ Refused(NextRequests[3])) => results_count = 5)
    /\ [][results_count' >= results_count]_vars

\* C9 witness: pages of 3 and 2 events pulled, then a refused request.
C9_Witness ==
    /\ Len(NextRequests) = 3
    /\ ~NextRequests[1].raised /\ NextRequests[1].status_code = OK
    /\ NextRequests[1].ReturnedEvents = 3
    /\ ~NextRequests[2].raised /\ NextRequests[2].status_code = OK
    /\ NextRequests[2].ReturnedEvents = 2
    /\ Refused(NextRequests[3])
    /\ last.outcome = "StopIteration"

\* A page pull during which the transport raised.
PullRaised == \E i \in 1..Len(wire) : IsNext(wire[i]) /\ wire[i].raised

\* C10 (SpecScoped): once the transport has raised during a page pull, an
\* exception is in flight or has left the block; the loop is not treated as
\* ended: no count line is printed and no document is written.
C10_TransportErrorPropagates ==
    PullRaised =>
        /\ pc \in {"with_exit", "done"}
        /\ exc = "TransportError"
        /\ \A i \in 1..Len(stdout) : stdout[i].kind # "count"
        /\ \A i \in 1..Len(file) : file[i].prior

\* C10 witness: a page was pulled, the next pull raised and the run is over.
C10_Witness ==
    PullRaised /\ pc = "done" /\ results_count > 0 /\ exc = "TransportError"

\* The service has refused a next request: a pull has signalled end-of-stream.
StreamEnded == \E i \in 1..Len(wire) : IsNext(wire[i]) /\ Refused(wire[i])

\* C11 (Spec), as claimed: once a pull has raised StopIteration, every later
\* pull raises StopIteration too and leaves results_count as it is, whatever
\* the service answers.
C11_StreamNotRestartable ==
    [][(StreamEnded /\ calls' # calls /\ last'.op = "next") =>
          (last'.outcome = "StopIteration" /\ results_count' = results_count)]_vars

\* The index of the scripted operation's first success, or one past the
\* script when it never succeeds within it.
FirstSuccess(script) ==
    IF \E i \in 1..Len(script) : script[i]
      THEN CHOOSE i \in 1..Len(script) :
             script[i] /\ \A j \in 1..(i - 1) : ~script[j]
      ELSE Len(script) + 1

Min(a, b) == IF a <= b THEN a ELSE b

\* C12 (SpecRetry): without a time limit and with tries = n >= 1 the function
\* is invoked exactly min(k, n) times, k being the index of its first
\* success: the call returns the value right after invocation k when k <= n,
\* and otherwise raises the TimeoutError of the exhausted tries, carrying the
\* last exception, right after invocation n.  Until then it keeps going.
C12_InvokedMinOfFirstSuccessAndTries ==
    LET k == FirstSuccess(retry.script)
        n == retry.tries
    IN (/\ retry.pc \in {"try", "returned", "raised"}
        /\ retry.time_limit = 0 /\ ~retry.tries_inf /\ n >= 1 /\ ~retry.testing) =>
          /\ retry.pc = "try" =>
                (retry.invocations < Min(k, n) /\ ENABLED Retry_attempt)
          /\ retry.pc = "returned" =>
                (k <= n /\ retry.invocations = k /\ retry.result = "value")
          /\ retry.pc = "raised" =>
                (k > n /\ retry.invocations = n
                 /\ retry.error = TimeoutError("retries", n))

\* C12 witness: tries = 3, the function fails twice, then succeeds: the value
\* is returned after three invocations.
C12_Witness ==
    /\ retry.pc = "returned"
    /\ retry.time_limit = 0 /\ ~retry.tries_inf /\ retry.tries = 3 /\ ~retry.testing
    /\ ~retry.script[1] /\ ~retry.script[2] /\ retry.script[3]
    /\ retry.invocations = 3

\* The tries are not used up by one more failure.
TriesLeftAfter(r) == r.tries_inf \/ r.attempts + 1 < r.tries

\* C13 (SpecRetry): a failure at which the time limit (when there is one) has
\* elapsed since start_time, with tries left, raises the TimeoutError of the
\* elapsed time carrying that failure, without a sleep, and a call that has
\* ended invokes nothing more; without a time limit only the tries end the
\* retrying in an error; without either the call never raises and goes on
\* while the function fails.
C13_TimeLimitEndsRetrying ==
    /\ [][(/\ retry.pc = "try"
           /\ retry'.invocations # retry.invocations
           /\ ~retry.script[retry'.invocations]
           /\ ~retry.testing
           /\ TriesLeftAfter(retry)
           /\ retry.time_limit # 0
           /\ retry'.elapsed >= retry.time_limit) =>
             /\ retry'.pc = "raised"
             /\ retry'.error = TimeoutError("elapsed", retry'.invocations)
             /\ retry'.sleeps = retry.sleeps]_vars
    /\ [][retry.pc \in {"returned", "raised"} => retry' = retry]_vars
    /\ []((retry.pc = "raised" /\ retry.time_limit = 0 /\ ~retry.testing) =>
             (/\ retry.error = TimeoutError("retries", retry.invocations)
              /\ ~retry.tries_inf /\ retry.attempts >= retry.tries))
    /\ []((retry.time_limit = 0 /\ retry.tries_inf /\ ~retry.testing) =>
             (/\ retry.pc # "raised"
              /\ (retry.pc = "try" /\ retry.invocations < Len(retry.script)) =>
                    ENABLED Retry_attempt))

\* C13 witness: a failure exactly time_limit seconds after the start, with
\* tries left, ended the call with the elapsed-time TimeoutError.
C13_Witness ==
    /\ retry.pc = "raised"
    /\ retry.error.reason = "elapsed"
    /\ retry.elapsed = retry.time_limit
    /\ ~retry.tries_inf /\ retry.attempts < retry.tries
    /\ retry.invocations > 1

\* C14 (SpecRetry): with Retry.testing set the function is invoked at most
\* once and never followed by a sleep, and its failure is raised as it is,
\* not as a TimeoutError, whatever tries, time limit and delay are.
C14_TestingReraisesFirstFailure ==
    retry.testing =>
        /\ retry.sleeps = 0
        /\ retry.invocations <= 1
        /\ (retry.invocations = 1 /\ ~retry.script[1]) =>
              (retry.pc = "raised" /\ retry.error = OperationError(1))
        /\ retry.pc = "raised" => retry.invocations = 1

\* C14 witness: testing set on a Retry with tries, a time limit and a delay;
\* the first failure was re-raised.
C14_Witness ==
    /\ retry.testing /\ retry.pc = "raised"
    /\ ~retry.tries_inf /\ retry.tries = 3
    /\ retry.time_limit # 0 /\ retry.delay_sec # 0

\* Key k is a key of at least one of the records.
OccursIn(k, records) ==
    \E i \in 1..Len(records) : \E j \in 1..Len(records[i]) : records[i][j].name = k

Requested(keys) == {keys[i] : i \in 1..Len(keys)}

C17_ProjectsEveryRecord ==
    LET ins == pure.results_in
        out == pure.ret.results
    IN (/\ pure.called /\ pure.keys # <<>>
        /\ \A k \in Requested(pure.keys) : OccursIn(k, ins)) =>
          /\ ~pure.ret.exit
          /\ Len(out) = Len(ins)
          /\ \A i \in 1..Len(out) :
                /\ KeySet(out[i]) = Requested(pure.keys)
                /\ Len(out[i]) = Cardinality(Requested(pure.keys))
                /\ \A j \in 1..Len(out[i]) :
                      IF \E n \in 1..Len(ins[i]) : ins[i][n].name = out[i][j].name
                        THEN \E n \in 1..Len(ins[i]) : ins[i][n] = out[i][j]
                        ELSE /\ ~out[i][j].list
                             /\ out[i][j].value = <<"Not Found">>

\* C17 witness: field1 requested from two records of which only the first
\* has it; the second comes back with "Not Found".
C17_Witness ==
    /\ pure.called /\ pure.keys = <<"field1">>
    /\ Len(pure.results_in) = 2
    /\ "field1" \in KeySet(pure.results_in[1])
    /\ "field1" \notin KeySet(pure.results_in[2])
    /\ Len(pure.ret.results) = 2
    /\ pure.ret.results[2][1].value = <<"Not Found">>

IsEvent(line) == line.kind = "event"

IsKeyError(line) == line.kind = "KeyError"

\* The events printed so far, and whether the KeyError has been printed.
PrintedEvents == SelectSeq(stdout, IsEvent)

UnknownKeyFailed == \E i \in 1..Len(stdout) : IsKeyError(stdout[i])

\* Key k has a value of its own in some printed event.
PrintedWithValue(k) ==
    \E i \in 1..Len(PrintedEvents) :
       \E j \in 1..Len(PrintedEvents[i].event) :
          /\ PrintedEvents[i].event[j].name = k
          /\ PrintedEvents[i].event[j].value # <<"Not Found">>

C18_FileOutputFiltersAsConsole ==
    [][(pc = "body" /\ output) =>
          LET r == parse_and_filter_results(data, filter_on)
          IN IF r.exit
               THEN exc' = "SystemExit" /\ events' = events
               ELSE events' = events \o r.results]_vars

\* The create request failed: it raised or was answered other than 200.
CreateFailed ==
    \E i \in 1..Len(wire) : wire[i].kind = "create" /\ ~CreateSucceeded(wire[i])

\* The content of the file found at the output path is at hand, at the path
\* or under the _old name.
PriorAvailable == file = <<PriorDocument>> \/ renamed = <<PriorDocument>>

\* C19 (SpecScoped): a run of save_query_fields that a failed create or a
\* transport error of a page pull has ended leaves nothing at the output
\* path, whatever had been collected; and a file found at the path at the
\* start stays at hand with its content through every step of every run.
C19_AbortLeavesNoPartialFile ==
    /\ []((output /\ pc = "done" /\ (CreateFailed \/ PullRaised)) =>
             (file = <<>> /\ exc # None))
    /\ [][PriorAvailable => PriorAvailable']_vars

\* C19 witness: the output file existed, pages were collected, then a pull
\* raised: the run has ended with nothing at the path and the old file
\* renamed.
C19_Witness ==
    /\ output /\ pc = "done" /\ PullRaised
    /\ events # <<>>
    /\ renamed = <<PriorDocument>>
    /\ file = <<>>

\* C20 (SpecScoped): the only change made to an existing output file is its
\* move to the _old name, and it comes before any request and any write; a
\* PermissionError of the rename ends the run with that error, the file as it
\* was, no request sent, nothing printed and nothing written.
C20_RenameFirstOrFail ==
    /\ [][file' # file =>
            \/ file = <<>>
            \/ /\ file' = <<>> /\ renamed' = file
               /\ wire = <<>> /\ events = <<>>]_vars
    /\ [](exc = "PermissionError" =>
            /\ pc = "done"
            /\ file = <<PriorDocument>> /\ renamed = <<>>
            /\ wire = <<>> /\ open = "unset" /\ quuid = None
            /\ stdout = <<>> /\ events = <<>>)
    /\ []((output /\ wire # <<>>) => file # <<PriorDocument>>)

\* C20 witness: the rename of the existing file has failed and the run is
\* over.
C20_Witness ==
    /\ output /\ pc = "done"
    /\ exc = "PermissionError"
    /\ file = <<PriorDocument>>

\* C21 (SpecSessions), as claimed: a call made on one object, its
\* construction by from_ip included, leaves every other object's address for
\* its requests, identifier, open flag and results_count as they were.
C21_NoStateSharedBetweenSessions ==
    [][\A s \in DOMAIN conns :
         last'.session # s => (base_url' = base_url /\ conns'[s] = conns[s])]_vars

\* C22 (SpecSessions), as claimed: every request sent carries the cert of the
\* object that sent it and a headers argument.
C22_EveryRequestCarriesCertAndHeaders ==
    \A i \in 1..Len(wire) :
       /\ wire[i].cert = conns[wire[i].session].cert
       /\ {"cert", "headers"} \subseteq wire[i].kwargs

IsCount(line) == line.kind = "count"

CountLines == SelectSeq(stdout, IsCount)

RECURSIVE ParsedPages(_)
\* The parsed events of a sequence of pages, in order.
ParsedPages(pages) ==
    IF pages = <<>> THEN <<>>
    ELSE ParsedPages(SubSeq(pages, 1, Len(pages) - 1)) \o parse_results(pages[Len(pages)])

\* The values the raw fields of an event of the service hold.
RawValuesOf(fields) ==
    {fields[i].value : i \in {j \in 1..Len(fields) : IsRawData(fields[j].name)}}

\* C24 (SpecSave): the events of the written file are determined by the pages
\* pulled alone, the same with and without decode_raw; each raw field of each
\* event holds the base64 text the service sent; the decoding changes nothing
\* of the file and only writes rawdata files, and only with decode_raw.
C24_StoredEventsIndependentOfDecodeRaw ==
    /\ [](file # <<>> =>
            /\ file[1].events = ParsedPages(save.pulled)
            /\ \A i \in 1..Len(file[1].events) : \A j \in 1..Len(file[1].events[i]) :
                  LET item == file[1].events[i][j]
                  IN IsRawData(item.name) =>
                        \A k \in 1..Len(item.value) : item.value[k] \in Encoded)
    /\ [][pc = "decode" => file' = file]_vars
    /\ [](save.rawdata # {} => (save.decode_raw /\ file # <<>>))

\* C24 witness: with decode_raw an event with a raw field was stored and its
\* raw data decoded into a rawdata file.
C24_Witness ==
    /\ pc = "done" /\ save.decode_raw
    /\ file # <<>>
    /\ [path |-> <<"rawdata", "source", "field">>, bytes |-> "fake"] \in save.rawdata
    /\ \E i \in 1..Len(file[1].events) :
          Get(file[1].events[i], "RAWDATA_field").value = <<"ZmFrZQ==">>

\* The position of key k among the keys of a record.
KeyPosition(record, k) == CHOOSE j \in 1..Len(record) : record[j].name = k

\* C25 (SpecParse), as claimed: in the list parse_results returns, any two keys
\* a record shares with the first record come in the order the first record
\* has them in.
C25_FieldOrderOfFirstRecord ==
    pure.called =>
        \A i \in 1..Len(pure.ret) :
           \A k1, k2 \in KeySet(pure.ret[i]) \cap KeySet(pure.ret[1]) :
              (KeyPosition(pure.ret[i], k1) < KeyPosition(pure.ret[i], k2))
                 <=> (KeyPosition(pure.ret[1], k1) < KeyPosition(pure.ret[1], k2))

\* The values of the fields named k of a raw event, in order of occurrence.
ValuesOf(fields, k) ==
    LET Named(f) == f.name = k
        fs == SelectSeq(fields, Named)
    IN [i \in 1..Len(fs) |-> fs[i].value]

\* C26 (SpecParse): parse_results returns one record per raw event, in the
\* order of the events; the keys of a record are the field names of its
\* event, each once; a name that occurs several times holds the list of its
\* values in order of occurrence, a name that occurs once its value as a
\* scalar.
C26_OneRecordPerEvent ==
    LET evs == pure.raw_events.Events
        out == pure.ret
    IN pure.called =>
         /\ Len(out) = Len(evs)
         /\ \A i \in 1..Len(out) :
               /\ KeySet(out[i]) = {evs[i][j].name : j \in 1..Len(evs[i])}
               /\ Len(out[i]) = Cardinality(KeySet(out[i]))
               /\ \A j \in 1..Len(out[i]) :
                     /\ out[i][j].value = ValuesOf(evs[i], out[i][j].name)
                     /\ out[i][j].list <=> Len(ValuesOf(evs[i], out[i][j].name)) > 1

\* C26 witness: an event in which field1 occurs twice and field2 once gave a
\* list for field1 and a scalar for field2.
C26_Witness ==
    /\ pure.called
    /\ pure.raw_events.Events =
          << <<Field("field1", "b"), Field("field2", "a"), Field("field1", "a")>> >>
    /\ pure.ret = << << [name |-> "field1", list |-> TRUE, value |-> <<"b", "a">>],
                        [name |-> "field2", list |-> FALSE, value |-> <<"a">>] >> >>

PollFails(n) ==
    \/ Len(ingest.listings[n]) = ingest.baseline_num_apps
    \/ \E i \in 1..Len(ingest.listings[n]) : ingest.listings[n][i] # "FINISHED"

Ran(cmd) == \E i \in 1..Len(ingest.commands) : ingest.commands[i] = cmd

\* check_app_statuses has not been called.
NoStatusCheck == retry.pc = "constructed" /\ retry.invocations = 0

\* C29 (SpecIngest): the hdfs dfs -put has run only in a run that found the
\* file absent from the pod, ran kubectl cp and found the file there after
\* it; a run that finds the file on the pod ends with exit code 0 having run
\* neither kubectl cp nor the put, a run that does not find it after kubectl
\* cp ends with exit code 1 without the put, and neither of the two runs goes
\* on to check_app_statuses.
C29_PutOnlyAfterVerifiedCopy ==
    /\ Ran("hdfs dfs -put") =>
          /\ FileName \notin ingest.tmp_before
          /\ FileName \in ingest.tmp
          /\ ingest.commands = <<"yarn application -list", "ls tmp", "kubectl cp",
                                 "ls tmp", "hdfs dfs -put">>
    /\ (Ran("ls tmp") /\ FileName \in ingest.tmp_before) =>
          /\ ingest.pc = "done" /\ ingest.exit_code = 0
          /\ ~Ran("kubectl cp") /\ ~Ran("hdfs dfs -put")
          /\ NoStatusCheck
    /\ (Ran("kubectl cp") /\ FileName \notin ingest.tmp) =>
          /\ ingest.pc = "done" /\ ingest.exit_code = 1
          /\ ~Ran("hdfs dfs -put")
          /\ NoStatusCheck
    /\ ~NoStatusCheck => Ran("hdfs dfs -put")

\* C29 witness: the put has run after a verified copy and the status check
\* after it has returned.
C29_Witness ==
    /\ ingest.pc = "done" /\ ingest.exit_code = 0
    /\ Ran("hdfs dfs -put")
    /\ retry.pc = "returned"

RetryEnded == retry.pc \in {"returned", "raised"}

\* C30 as stated (SpecRetry): a call of the executor that has ended has
\* invoked the function at least once and has slept one time less than it
\* has invoked the function.
C30_SleepsAreInvocationsMinusOne ==
    RetryEnded => /\ retry.invocations >= 1
                  /\ retry.sleeps = retry.invocations - 1

\* C30 (SpecRetry): a call of the executor that has ended has invoked the
\* function at least once, whatever tries and time_limit_min are; with a
\* delay_sec other than zero it has slept one time less than it has invoked
\* the function and while it runs every sleep has been followed by an
\* invocation or waits for one, and with a delay_sec of zero it never sleeps.
C30_SleepsOnlyBetweenInvocations ==
    /\ RetryEnded => retry.invocations >= 1
    /\ (RetryEnded /\ retry.delay_sec # 0) => retry.sleeps = retry.invocations - 1
    /\ (retry.pc = "try" /\ retry.delay_sec # 0) => retry.sleeps = retry.invocations
    /\ retry.delay_sec = 0 => retry.sleeps = 0

\* C30 witness: a call with a delay has failed for good after sleeping twice
\* between its invocations.
C30_Witness ==
    /\ RetryEnded
    /\ retry.delay_sec # 0
    /\ retry.sleeps >= 2
    /\ retry.pc = "raised"

====
